---- MODULE Spec2Model ----
(***************************************************************************)
(* Model of the voting-rings game engine (src/src/lib/voting-game.ts):     *)
(* the classes VotingGame and InfluenceVotingGame, their run() loops, the  *)
(* phase-one vote with its tie-break loop, and phase two.                  *)
(*                                                                         *)
(* Math.random() is modelled as a nondeterministic choice (\E) over the    *)
(* array it indexes.  A JavaScript Map is modelled as a TLA+ function      *)
(* whose DOMAIN is the Map's key set; an array of ids whose order no code  *)
(* reads (mostVoted) is modelled as a set.                                 *)
(***************************************************************************)
EXTENDS Integers, Sequences, FiniteSets, TLC

\* ------------------------------------------------------------- bounds
\* Largest roster (loyalistCount + traitorCount) of a VotingGame.
MaxActors == 4
\* Largest roster of an InfluenceVotingGame (it carries one score per
\* ordered pair of actors, so its initial states grow much faster).
MaxInfluenceActors == 4
\* Largest roster of the games of a runSimulation batch, and the largest
\* number of games in it.
MaxSimActors == 4
MaxIterations == 2
\* Longest batch handed to calculateStatistics, and the largest rounds value
\* in it.
MaxBatch == 4
MaxRounds == 3

\* ------------------------------------------------- program constants
MAX_TIE_BREAKS == 10
NO_VALID_TARGET == -1
NONE_REMOVED == -1
MIN_INFLUENCE_SCORE == 1
MAX_INFLUENCE_SCORE == 100

\* The influence scores the model draws from (the code draws from
\* MIN_INFLUENCE_SCORE..MAX_INFLUENCE_SCORE).
ScoreValues == {MIN_INFLUENCE_SCORE, MAX_INFLUENCE_SCORE}

EndConditions == {"first_traitor_removed", "all_one_type"}
GameTypes == {"random", "fixate"}
SimulationTypes == {"random", "influence"}

\* The values callers pass as the third argument of new VotingGame(...): the
\* two end conditions, and 'fixate' (voting-game.test.ts passes a GameType
\* there; nothing checks the value at run time).
ThirdArguments == EndConditions \cup {"fixate"}

\* The values callers pass as the fourth argument of runSimulation(...): the
\* two simulation types, and 'fixate' (voting-game.test.ts passes a GameType
\* there).
FourthArguments == SimulationTypes \cup {"fixate"}

\* The outcome values of a SimulationResult a batch can hold.
Outcomes == {"traitor_removed", "no_loyalists"}

VARIABLES
  simType,          \* which class was constructed: "random" = VotingGame, "influence" = InfluenceVotingGame
  loyalistCount,    \* constructor argument
  traitorCount,     \* constructor argument
  endCondition,     \* this.endCondition
  gameType,         \* this.gameType
  actors,           \* this.actors: sequence of [id, type, status]
  roundHistory,     \* this.roundHistory
  currentRound,     \* this.currentRound
  loyalistSuspects, \* this.loyalistSuspects (Map: loyalist id -> suspect id)
  influenceScores,  \* this.influenceScores (Map: <<from, to>> -> score)
  pc,               \* position of run()
  ballots,          \* the targetId each voter chose in the round's initial conductVote() (voter id -> target id)
  voters,           \* the ids that cast a vote in the last conductVote call
  votes,            \* local votes of resolvePhaseOne
  mostVoted,        \* local mostVoted of resolvePhaseOne
  firstMostVoted,   \* history: mostVoted as the initial vote of this resolvePhaseOne left it
  tieBreakAttempts, \* local tieBreakAttempts of resolvePhaseOne
  votesHeld,        \* number of conductVote calls made in the current resolvePhaseOne
  removedId,        \* phaseOne.removedId
  startActive,      \* ids active when the current round started
  result,           \* the GameResult returned by run(), <<>> before the return
  iterations,       \* runSimulation: argument iterations
  type,             \* runSimulation: argument type
  iteration,        \* runSimulation: loop counter i
  results,          \* runSimulation: local results; calculateStatistics: argument results
  stats,            \* the record calculateStatistics returned, <<>> before the return
  histData          \* Histogram: the array histData of the effect, <<>> before it is built

vars == <<simType, loyalistCount, traitorCount, endCondition, gameType, actors,
          roundHistory, currentRound, loyalistSuspects, influenceScores, pc,
          ballots, voters, votes, mostVoted, firstMostVoted, tieBreakAttempts,
          votesHeld, removedId, startActive, result, iterations, type, iteration, results,
          stats, histData>>

\* ------------------------------------------------------------ roster
\* The actor with the given id (ids are 0-based, sequences 1-based).
find(id) == actors[id + 1]

Ids == {actors[i].id : i \in 1..Len(actors)}

\* Mutant of NewActors: the faction boundary is off by one.
NewActors_BoundaryOffByOne(L, T) ==
  [i \in 1..(L + T) |->
     [id |-> i - 1,
      type |-> IF i - 1 <= L THEN "loyalist" ELSE "traitor",
      status |-> "active"]]

\* constructor: loyalists get ids [0, L), traitors [L, L+T), all active.
NewActors(L, T) ==
  [i \in 1..(L + T) |->
     [id |-> i - 1,
      type |-> IF i - 1 < L THEN "loyalist" ELSE "traitor",
      status |-> "active"]]

IsActive(a) == a.status = "active"
IsActiveLoyalist(a) == a.status = "active" /\ a.type = "loyalist"
IsActiveTraitor(a) == a.status = "active" /\ a.type = "traitor"

getActiveActors == SelectSeq(actors, IsActive)
getActiveLoyalists == SelectSeq(actors, IsActiveLoyalist)
getActiveTraitors == SelectSeq(actors, IsActiveTraitor)

\* The ids held by an array of actors.
IdsOf(arr) == {arr[i].id : i \in 1..Len(arr)}

ActiveIds == IdsOf(getActiveActors)
ActiveLoyalistIds == IdsOf(getActiveLoyalists)
ActiveTraitorIds == IdsOf(getActiveTraitors)

\* Mutant of MarkRemoved: the status is never written.
MarkRemoved_Forgets(id) == actors

\* actor.status = 'removed' on the actor with this id (no actor: no change).
MarkRemoved(id) ==
  [i \in 1..Len(actors) |->
     IF actors[i].id = id THEN [actors[i] EXCEPT !.status = "removed"] ELSE actors[i]]

\* --------------------------------------------------- VotingGame votes
\* Mutant of getSuspectForLoyalist: a stored suspect is kept even when it is
\* no longer active.
getSuspectForLoyalist_KeepsRemoved(loyalistId) ==
  LET validTargets == ActiveIds \ {loyalistId}
  IN IF validTargets = {} THEN {}
     ELSE IF loyalistId \in DOMAIN loyalistSuspects
          THEN {loyalistSuspects[loyalistId]}
          ELSE validTargets

\* getSuspectForLoyalist: the ids it can return for this loyalist; {} stands
\* for NO_VALID_TARGET (no vote is cast).
getSuspectForLoyalist(loyalistId) ==
  LET validTargets == ActiveIds \ {loyalistId}
  IN IF validTargets = {} THEN {}
     ELSE IF loyalistId \in DOMAIN loyalistSuspects
              /\ loyalistSuspects[loyalistId] \in validTargets
          THEN {loyalistSuspects[loyalistId]}
          ELSE validTargets

\* Mutant of TargetChoices: a loyalist of the random strategy draws from the
\* other active loyalists only, and casts no vote when there is none.
TargetChoices_LoyalistsVoteLoyalists(actorId, hasEligible, eligibleTargets) ==
  IF hasEligible THEN eligibleTargets
  ELSE IF find(actorId).type = "loyalist"
       THEN IF gameType = "fixate"
            THEN getSuspectForLoyalist(actorId)
            ELSE ActiveLoyalistIds \ {actorId}
       ELSE ActiveLoyalistIds

\* Mutant of TargetChoices: a traitor draws from every other active actor.
TargetChoices_TraitorsVoteAnyone(actorId, hasEligible, eligibleTargets) ==
  IF hasEligible THEN eligibleTargets
  ELSE IF find(actorId).type = "loyalist"
       THEN IF gameType = "fixate"
            THEN getSuspectForLoyalist(actorId)
            ELSE ActiveIds \ {actorId}
       ELSE ActiveIds \ {actorId}

\* The targetId values one voter can end with in VotingGame.conductVote;
\* {} when targetId stays undefined (the voter casts no vote).
TargetChoices(actorId, hasEligible, eligibleTargets) ==
  IF hasEligible THEN eligibleTargets
  ELSE IF find(actorId).type = "loyalist"
       THEN IF gameType = "fixate"
            THEN getSuspectForLoyalist(actorId)
            ELSE ActiveIds \ {actorId}
       ELSE ActiveLoyalistIds

\* The votes map conductVote returns when the voters chose as in b.
Tally(b) ==
  [t \in {b[a] : a \in DOMAIN b} |-> Cardinality({a \in DOMAIN b : b[a] = t})]

\* votes.set(targetId, (votes.get(targetId) || 0) + 1)
AddVote(v, targetId) ==
  [t \in (DOMAIN v) \cup {targetId} |->
     IF t = targetId THEN (IF t \in DOMAIN v THEN v[t] ELSE 0) + 1 ELSE v[t]]

\* VotingGame.conductVote: every assignment of a target to each active actor
\* that has one (voter id -> target id).
conductVote(hasEligible, eligibleTargets) ==
  LET choices == [a \in ActiveIds |-> TargetChoices(a, hasEligible, eligibleTargets)]
      casting == {a \in ActiveIds : choices[a] # {}}
  IN {b \in [casting -> Ids] : \A a \in casting : b[a] \in choices[a]}

\* this.loyalistSuspects after an initial fixate vote with ballots b: a loyalist
\* whose suspect was kept or newly drawn holds the id it voted for.
SuspectsAfter(b) ==
  IF gameType # "fixate" \/ simType # "random" THEN loyalistSuspects
  ELSE LET voted == {a \in DOMAIN b : find(a).type = "loyalist"}
       IN [l \in (DOMAIN loyalistSuspects) \cup voted |->
             IF l \in voted THEN b[l] ELSE loyalistSuspects[l]]

\* Mutant of findMostVoted: the ids with the smallest count are kept.
findMostVoted_Least(v) ==
  {k \in DOMAIN v : \A j \in DOMAIN v : v[k] <= v[j]}

\* findMostVoted: the ids whose count equals the largest count (maxVotes
\* starts at 0, so an empty tally gives no id).
findMostVoted(v) ==
  LET maxVotes == IF DOMAIN v = {} THEN 0
                  ELSE CHOOSE m \in {v[k] : k \in DOMAIN v} :
                         \A k \in DOMAIN v : v[k] <= m
  IN {k \in DOMAIN v : v[k] = maxVotes}

\* ------------------------------------------ InfluenceVotingGame votes
\* Mutant of getInfluence: a key the Map does not hold reads as a score above
\* every assigned one.
getInfluence_MissingIsHighest(fromId, toId) ==
  IF <<fromId, toId>> \in DOMAIN influenceScores
  THEN influenceScores[<<fromId, toId>>] ELSE MAX_INFLUENCE_SCORE + 1

\* getInfluence: the stored score, 0 for a key the Map does not hold.
getInfluence(fromId, toId) ==
  IF <<fromId, toId>> \in DOMAIN influenceScores
  THEN influenceScores[<<fromId, toId>>] ELSE 0

\* validTargets of one voter in InfluenceVotingGame.conductVote.
Influence_validTargets(actorId, hasEligible, eligibleTargets) ==
  IF hasEligible THEN eligibleTargets
  ELSE IF find(actorId).type = "loyalist" THEN ActiveIds \ {actorId}
       ELSE ActiveLoyalistIds

\* Mutant of LowestInfluenceTarget: the highest score is sought.
LowestInfluenceTarget_Highest(actorId, validTargets) ==
  CHOOSE t \in validTargets :
    /\ \A u \in validTargets : getInfluence(actorId, t) >= getInfluence(actorId, u)
    /\ \A u \in validTargets :
         getInfluence(actorId, u) = getInfluence(actorId, t) => t <= u

\* The first target (roster order) with the lowest influence score.
LowestInfluenceTarget(actorId, validTargets) ==
  CHOOSE t \in validTargets :
    /\ \A u \in validTargets : getInfluence(actorId, t) <= getInfluence(actorId, u)
    /\ \A u \in validTargets :
         getInfluence(actorId, u) = getInfluence(actorId, t) => t <= u

\* InfluenceVotingGame.conductVote: the one ballot assignment it produces.
Influence_conductVote(hasEligible, eligibleTargets) ==
  LET casting == {a \in ActiveIds :
                   Influence_validTargets(a, hasEligible, eligibleTargets) # {}}
  IN {[a \in casting |->
         LowestInfluenceTarget(a, Influence_validTargets(a, hasEligible, eligibleTargets))]}

\* Total influence a loyalist holds over all other active actors.
RECURSIVE SumInfluence(_, _)
SumInfluence(fromId, others) ==
  IF others = {} THEN 0
  ELSE LET o == CHOOSE x \in others : TRUE
       IN getInfluence(fromId, o) + SumInfluence(fromId, others \ {o})

totalInfluence(loyalistId) == SumInfluence(loyalistId, ActiveIds \ {loyalistId})

\* ------------------------------------------------------- phase two
\* Mutant of resolvePhaseTwo: draws from getActiveActors() instead of
\* getActiveLoyalists().
resolvePhaseTwo_AnyActive ==
  IF ActiveLoyalistIds = {} THEN {NONE_REMOVED} ELSE ActiveIds

\* Mutant of resolvePhaseTwo: draws from the loyalists of the whole roster,
\* removed ones included.
resolvePhaseTwo_RosterLoyalists ==
  IF ActiveLoyalistIds = {} THEN {NONE_REMOVED}
  ELSE {id \in Ids : find(id).type = "loyalist"}

\* Mutant of resolvePhaseTwo: the last active loyalist is spared.
resolvePhaseTwo_SparesLastLoyalist ==
  IF Cardinality(ActiveLoyalistIds) <= 1 THEN {NONE_REMOVED} ELSE ActiveLoyalistIds

\* VotingGame.resolvePhaseTwo: the ids it can return.
resolvePhaseTwo ==
  IF ActiveLoyalistIds = {} THEN {NONE_REMOVED} ELSE ActiveLoyalistIds

\* Mutant of Influence_resolvePhaseTwo: the lowest total influence is sought.
Influence_resolvePhaseTwo_Lowest ==
  IF ActiveLoyalistIds = {} THEN {NONE_REMOVED}
  ELSE {CHOOSE t \in ActiveLoyalistIds :
          /\ \A u \in ActiveLoyalistIds : totalInfluence(u) >= totalInfluence(t)
          /\ \A u \in ActiveLoyalistIds :
               totalInfluence(u) = totalInfluence(t) => t <= u}

\* InfluenceVotingGame.resolvePhaseTwo: the first loyalist (roster order)
\* with the highest total influence.
Influence_resolvePhaseTwo ==
  IF ActiveLoyalistIds = {} THEN {NONE_REMOVED}
  ELSE {CHOOSE t \in ActiveLoyalistIds :
          /\ \A u \in ActiveLoyalistIds : totalInfluence(u) <= totalInfluence(t)
          /\ \A u \in ActiveLoyalistIds :
               totalInfluence(u) = totalInfluence(t) => t <= u}

\* ------------------------------------------------- end of the game
\* Mutant of isGameOver: && in place of ||.
isGameOver_BothEliminated ==
  Len(getActiveTraitors) = 0 /\ Len(getActiveLoyalists) = 0

isGameOver == Len(getActiveTraitors) = 0 \/ Len(getActiveLoyalists) = 0

\* Mutant of getOutcome: the end-condition test is inverted.
getOutcome_SwappedConditions ==
  IF endCondition # "first_traitor_removed"
  THEN IF Len(getActiveLoyalists) = 0 THEN "no_loyalists" ELSE "traitor_removed"
  ELSE IF Len(getActiveTraitors) = 0 THEN "all_loyalists" ELSE "all_traitors"

\* Mutant of getOutcome: first_traitor_removed decided by the traitor count.
getOutcome_ByTraitorCount ==
  IF endCondition = "first_traitor_removed"
  THEN IF Len(getActiveTraitors) = 0 THEN "traitor_removed" ELSE "no_loyalists"
  ELSE IF Len(getActiveTraitors) = 0 THEN "all_loyalists" ELSE "all_traitors"

\* VotingGame.getOutcome
getOutcome ==
  IF endCondition = "first_traitor_removed"
  THEN IF Len(getActiveLoyalists) = 0 THEN "no_loyalists" ELSE "traitor_removed"
  ELSE IF Len(getActiveTraitors) = 0 THEN "all_loyalists" ELSE "all_traitors"

\* InfluenceVotingGame.getOutcome
Influence_getOutcome ==
  IF Len(getActiveTraitors) = 0 THEN "traitor_removed" ELSE "no_loyalists"


\* ------------------------------------------------------ construction
\* The influenceScores maps a constructor can build: one score per ordered
\* pair of distinct actors for an InfluenceVotingGame, none for a VotingGame.
InfluenceScoreMaps ==
  IF simType = "influence"
  THEN [{<<a, b>> \in (0..(loyalistCount + traitorCount - 1))
                        \X (0..(loyalistCount + traitorCount - 1)) : a # b}
          -> ScoreValues]
  ELSE {<<>>}

\* new VotingGame(L, T, endCondition, gameType) or new InfluenceVotingGame(L, T);
\* the influence game draws one score per ordered pair of distinct actors.
\* The constructor stores its third argument in this.endCondition whatever it
\* is; the call new VotingGame(L, T, 'fixate') has no fourth argument, so
\* gameType takes its default 'random'.  No count is validated.
Init ==
  /\ simType \in SimulationTypes
  /\ loyalistCount \in 0..MaxActors
  /\ traitorCount \in 0..MaxActors
  /\ loyalistCount + traitorCount <=
       (IF simType = "influence" THEN MaxInfluenceActors ELSE MaxActors)
  /\ endCondition \in (IF simType = "influence" THEN {"first_traitor_removed"}
                       ELSE ThirdArguments)
  /\ gameType \in (IF simType = "influence" \/ endCondition \notin EndConditions
                   THEN {"random"} ELSE GameTypes)
  /\ actors = NewActors(loyalistCount, traitorCount)
  /\ roundHistory = <<>>
  /\ currentRound = 0
  /\ loyalistSuspects = <<>>
  /\ influenceScores \in InfluenceScoreMaps
  /\ pc = "loop"
  /\ ballots = <<>>
  /\ voters = {}
  /\ votes = <<>>
  /\ mostVoted = {}
  /\ firstMostVoted = {}
  /\ tieBreakAttempts = 0
  /\ votesHeld = 0
  /\ removedId = NONE_REMOVED
  /\ startActive = {}
  /\ result = <<>>
  /\ iterations = 0
  /\ type = simType
  /\ iteration = 0
  /\ results = <<>>
  /\ stats = <<>>
  /\ histData = <<>>

\* ---------------------------------------------------------- run()
\* Variables no step of run() assigns.
config == <<simType, loyalistCount, traitorCount, endCondition, gameType, influenceScores,
            iterations, type, iteration, results, stats, histData>>
phaseOneLocals == <<ballots, voters, votes, mostVoted, firstMostVoted, tieBreakAttempts,
                    votesHeld>>

\* The ballot assignments the constructed class's conductVote() can produce.
Ballots(hasEligible, eligibleTargets) ==
  IF simType = "influence" THEN Influence_conductVote(hasEligible, eligibleTargets)
  ELSE conductVote(hasEligible, eligibleTargets)

\* Mutant of RoundResult: roundNumber counted from 0.
RoundResult_ZeroBased(phaseTwoRemoved, remaining) ==
  [roundNumber |-> currentRound - 1,
   phaseOneVotes |-> votes,
   phaseOneRemoved |-> removedId,
   phaseTwoRemoved |-> phaseTwoRemoved,
   remainingActors |-> remaining]

\* Mutant of RoundResult: remainingActors snapshots the roster as it was when
\* the round started, removed actors of this round included.
RoundResult_StaleRemaining(phaseTwoRemoved, remaining) ==
  [roundNumber |-> currentRound,
   phaseOneVotes |-> votes,
   phaseOneRemoved |-> removedId,
   phaseTwoRemoved |-> phaseTwoRemoved,
   remainingActors |-> SelectSeq(actors, LAMBDA a : a.id \in startActive)]

\* Mutant of VoterChoices: in a re-vote of an InfluenceVotingGame the voter
\* draws at random from the eligible targets.
VoterChoices_RandomRevote(actorId, hasEligible, eligibleTargets) ==
  IF simType = "influence"
  THEN IF hasEligible THEN eligibleTargets
       ELSE IF Influence_validTargets(actorId, hasEligible, eligibleTargets) = {} THEN {}
            ELSE {LowestInfluenceTarget(actorId,
                    Influence_validTargets(actorId, hasEligible, eligibleTargets))}
  ELSE TargetChoices(actorId, hasEligible, eligibleTargets)

\* The targetId values one voter of the constructed class can end with.
VoterChoices(actorId, hasEligible, eligibleTargets) ==
  IF simType = "influence"
  THEN IF Influence_validTargets(actorId, hasEligible, eligibleTargets) = {} THEN {}
       ELSE {LowestInfluenceTarget(actorId,
               Influence_validTargets(actorId, hasEligible, eligibleTargets))}
  ELSE TargetChoices(actorId, hasEligible, eligibleTargets)

\* The loop of conductVote from the voter at position i of getActiveActors()
\* on: the votes maps it can end with, starting from any map of tallies.
RECURSIVE CastVotes(_, _, _, _)
CastVotes(i, hasEligible, eligibleTargets, tallies) ==
  IF i > Len(getActiveActors) THEN tallies
  ELSE LET choices == VoterChoices(getActiveActors[i].id, hasEligible, eligibleTargets)
       IN CastVotes(i + 1, hasEligible, eligibleTargets,
                    IF choices = {} THEN tallies
                    ELSE {AddVote(v, t) : v \in tallies, t \in choices})

\* conductVote(tiedActors): the votes maps a tie-break re-vote can return.
Revotes(eligibleTargets) == CastVotes(1, TRUE, eligibleTargets, {<<>>})

\* The RoundResult run() pushes, read after the round's removals.
RoundResult(phaseTwoRemoved, remaining) ==
  [roundNumber |-> currentRound,
   phaseOneVotes |-> votes,
   phaseOneRemoved |-> removedId,
   phaseTwoRemoved |-> phaseTwoRemoved,
   remainingActors |-> remaining]

\* while (!this.isGameOver()) { this.currentRound++; ...
LoopEnter ==
  /\ pc = "loop"
  /\ ~isGameOver
  /\ currentRound' = currentRound + 1
  /\ startActive' = ActiveIds
  /\ pc' = "phaseOne"
  /\ UNCHANGED <<config, actors, roundHistory, loyalistSuspects, phaseOneLocals,
                 removedId, result>>

\* the while condition is false: fall through to the return statement
LoopExit ==
  /\ pc = "loop"
  /\ isGameOver
  /\ pc' = "return"
  /\ UNCHANGED <<config, actors, roundHistory, currentRound, loyalistSuspects,
                 phaseOneLocals, removedId, startActive, result>>

\* Mutant of InitialVote: casting the votes also marks a most voted actor
\* removed.
InitialVote_MarksMostVoted ==
  /\ pc = "phaseOne"
  /\ \E b \in Ballots(FALSE, {}) :
       /\ ballots' = b
       /\ voters' = DOMAIN b
       /\ votes' = Tally(b)
       /\ mostVoted' = findMostVoted(Tally(b))
       /\ firstMostVoted' = findMostVoted(Tally(b))
       /\ loyalistSuspects' = SuspectsAfter(b)
       /\ \E id \in findMostVoted(Tally(b)) : actors' = MarkRemoved(id)
  /\ tieBreakAttempts' = 0
  /\ votesHeld' = 1
  /\ pc' = "tieBreak"
  /\ UNCHANGED <<config, roundHistory, currentRound, removedId,
                 startActive, result>>

\* resolvePhaseOne, first three statements: the initial vote.
InitialVote ==
  /\ pc = "phaseOne"
  /\ \E b \in Ballots(FALSE, {}) :
       /\ ballots' = b
       /\ voters' = DOMAIN b
       /\ votes' = Tally(b)
       /\ mostVoted' = findMostVoted(Tally(b))
       /\ firstMostVoted' = findMostVoted(Tally(b))
       /\ loyalistSuspects' = SuspectsAfter(b)
  /\ tieBreakAttempts' = 0
  /\ votesHeld' = 1
  /\ pc' = "tieBreak"
  /\ UNCHANGED <<config, actors, roundHistory, currentRound, removedId,
                 startActive, result>>

\* Mutant of TieBreakContinues: <= in place of <.
TieBreakContinues_OffByOne ==
  Cardinality(mostVoted) > 1 /\ tieBreakAttempts <= MAX_TIE_BREAKS

\* while (mostVoted.length > 1 && tieBreakAttempts < MAX_TIE_BREAKS)
TieBreakContinues ==
  Cardinality(mostVoted) > 1 /\ tieBreakAttempts < MAX_TIE_BREAKS

\* Mutant of tiedActors: the re-vote is open to every active actor.
tiedActors_AllActive == ActiveIds

\* tiedActors: the active actors whose id is in mostVoted.
tiedActors == {id \in ActiveIds : id \in mostVoted}

\* Mutant of TieBreakVote: the re-vote's tally decides mostVoted but is not
\* assigned to votes, which keeps the tally of the initial vote.
TieBreakVote_KeepsFirstTally ==
  /\ pc = "tieBreak"
  /\ TieBreakContinues
  /\ \E v \in Revotes(tiedActors) : mostVoted' = findMostVoted(v)
  /\ ballots' = <<>>
  /\ voters' = {a \in ActiveIds : VoterChoices(a, TRUE, tiedActors) # {}}
  /\ tieBreakAttempts' = tieBreakAttempts + 1
  /\ votesHeld' = votesHeld + 1
  /\ UNCHANGED <<config, actors, roundHistory, currentRound, loyalistSuspects, pc,
                 votes, firstMostVoted, removedId, startActive, result>>

\* One iteration of the tie-break loop: a re-vote over the tied actors.
TieBreakVote ==
  /\ pc = "tieBreak"
  /\ TieBreakContinues
  /\ \E v \in Revotes(tiedActors) :
       /\ votes' = v
       /\ mostVoted' = findMostVoted(v)
  /\ ballots' = <<>>
  /\ voters' = {a \in ActiveIds : VoterChoices(a, TRUE, tiedActors) # {}}
  /\ tieBreakAttempts' = tieBreakAttempts + 1
  /\ votesHeld' = votesHeld + 1
  /\ UNCHANGED <<config, actors, roundHistory, currentRound, loyalistSuspects, pc,
                 firstMostVoted, removedId, startActive, result>>

\* resolvePhaseOne returns { votes, removedId }: its other locals (and the
\* model's record of the last conductVote call) go out of scope.
LeavePhaseOne ==
  /\ ballots' = <<>>
  /\ voters' = {}
  /\ mostVoted' = {}
  /\ firstMostVoted' = {}
  /\ tieBreakAttempts' = 0
  /\ votesHeld' = 0

\* The end of one iteration of run()'s loop body: phaseOne goes out of scope.
LeaveRound ==
  /\ votes' = <<>>
  /\ removedId' = NONE_REMOVED
  /\ UNCHANGED <<ballots, voters, mostVoted, firstMostVoted, tieBreakAttempts, votesHeld>>

\* Mutant of RemovalCandidates: a tie that outlasts the loop is resolved among
\* all active actors.
RemovalCandidates_AllActiveWhenTied ==
  IF Cardinality(mostVoted) = 1 THEN mostVoted ELSE ActiveIds

\* The ids resolvePhaseOne can remove once the loop has ended:
\* randomChoice(mostVoted), or randomChoice(getActiveActors()).id when
\* mostVoted is empty.
RemovalCandidates == IF mostVoted # {} THEN mostVoted ELSE ActiveIds

\* Mutant of PhaseOneRemove: the recorded remainingActors are the roster's own
\* actor objects, not copies, so the removal shows in the rounds already pushed.
PhaseOneRemove_SharedActors ==
  /\ pc = "tieBreak"
  /\ ~TieBreakContinues
  /\ \E id \in RemovalCandidates :
       /\ removedId' = id
       /\ actors' = MarkRemoved(id)
       /\ roundHistory' =
            [k \in 1..Len(roundHistory) |->
               [roundHistory[k] EXCEPT !.remainingActors =
                  [i \in 1..Len(@) |-> MarkRemoved(id)[@[i].id + 1]]]]
  /\ pc' = "afterPhaseOne"
  /\ LeavePhaseOne
  /\ UNCHANGED <<config, currentRound, loyalistSuspects,
                 votes, startActive, result>>

\* resolvePhaseOne after the loop: pick removedId and mark that actor removed.
\* (With no candidate at all randomChoice returns undefined and reading .id
\* throws: the step is then not enabled.)
PhaseOneRemove ==
  /\ pc = "tieBreak"
  /\ ~TieBreakContinues
  /\ \E id \in RemovalCandidates :
       /\ removedId' = id
       /\ actors' = MarkRemoved(id)
  /\ pc' = "afterPhaseOne"
  /\ LeavePhaseOne
  /\ UNCHANGED <<config, roundHistory, currentRound, loyalistSuspects,
                 votes, startActive, result>>

\* Mutant of TraitorJustRemoved: the wrong end condition is tested.
TraitorJustRemoved_WrongCondition ==
  /\ simType = "random"
  /\ endCondition = "all_one_type"
  /\ removedId \in Ids
  /\ find(removedId).type = "traitor"

\* Mutant of TraitorJustRemoved: the end condition is not tested at all.
TraitorJustRemoved_AnyCondition ==
  /\ simType = "random"
  /\ removedId \in Ids
  /\ find(removedId).type = "traitor"

\* VotingGame.run: endCondition === 'first_traitor_removed' &&
\* removedActor?.type === 'traitor' (InfluenceVotingGame.run has no such test).
TraitorJustRemoved ==
  /\ simType = "random"
  /\ endCondition = "first_traitor_removed"
  /\ removedId \in Ids
  /\ find(removedId).type = "traitor"

\* push the round with phaseTwoRemoved: -1 and break (a traitor was removed)
BreakOnTraitorRemoved ==
  /\ pc = "afterPhaseOne"
  /\ TraitorJustRemoved
  /\ roundHistory' = Append(roundHistory, RoundResult(NONE_REMOVED, getActiveActors))
  /\ pc' = "return"
  /\ LeaveRound
  /\ UNCHANGED <<config, actors, currentRound, loyalistSuspects, startActive, result>>

\* push the round with phaseTwoRemoved: -1 and break (one side is eliminated)
BreakOnGameOver ==
  /\ pc = "afterPhaseOne"
  /\ ~TraitorJustRemoved
  /\ isGameOver
  /\ roundHistory' = Append(roundHistory, RoundResult(NONE_REMOVED, getActiveActors))
  /\ pc' = "return"
  /\ LeaveRound
  /\ UNCHANGED <<config, actors, currentRound, loyalistSuspects, startActive, result>>

\* The ids the constructed class's resolvePhaseTwo can return.
PhaseTwoChoices ==
  IF simType = "influence" THEN Influence_resolvePhaseTwo ELSE resolvePhaseTwo

\* resolvePhaseTwo, push the round, and the isGameOver test that ends the body.
PhaseTwo ==
  /\ pc = "afterPhaseOne"
  /\ ~TraitorJustRemoved
  /\ ~isGameOver
  /\ \E id \in PhaseTwoChoices :
       /\ actors' = MarkRemoved(id)
       /\ roundHistory' = Append(roundHistory, RoundResult(id, getActiveActors'))
  /\ pc' = IF isGameOver' THEN "return" ELSE "loop"
  /\ LeaveRound
  /\ UNCHANGED <<config, currentRound, loyalistSuspects, startActive, result>>

\* The GameResult run() returns.
GameResult ==
  [rounds |-> roundHistory,
   totalRounds |-> currentRound,
   outcome |-> IF simType = "influence" THEN Influence_getOutcome ELSE getOutcome,
   endCondition |-> IF simType = "influence" THEN "first_traitor_removed"
                    ELSE endCondition]

\* return { rounds, totalRounds, outcome, endCondition }
Return ==
  /\ pc = "return"
  /\ result' = GameResult
  /\ pc' = "done"
  /\ UNCHANGED <<config, actors, roundHistory, currentRound, loyalistSuspects,
                 phaseOneLocals, removedId, startActive>>

Next ==
  \/ LoopEnter
  \/ LoopExit
  \/ InitialVote
  \/ TieBreakVote
  \/ PhaseOneRemove
  \/ BreakOnTraitorRemoved
  \/ BreakOnGameOver
  \/ PhaseTwo
  \/ Return

Spec == Init /\ [][Next]_vars

\* run() is one synchronous call: every step that can be taken is taken.
FairSpec == Spec /\ WF_vars(Next)

\* ------------------------------------------------------ runSimulation
\* The state without a game object: before the first game of a batch is
\* constructed, and for calculateStatistics.
NoGame ==
  /\ actors = <<>>
  /\ roundHistory = <<>>
  /\ currentRound = 0
  /\ loyalistSuspects = <<>>
  /\ influenceScores = <<>>
  /\ ballots = <<>>
  /\ voters = {}
  /\ votes = <<>>
  /\ mostVoted = {}
  /\ firstMostVoted = {}
  /\ tieBreakAttempts = 0
  /\ votesHeld = 0
  /\ removedId = NONE_REMOVED
  /\ startActive = {}
  /\ result = <<>>

\* The call runSimulation(iterations, L, T, type, endCondition, gameType), and
\* const results = [].  endCondition and gameType hold the arguments of these
\* names, which reach the VotingGame constructor unchanged; they keep their
\* defaults in the calls that give no fifth and sixth argument (the four
\* argument call with 'fixate') and where the constructed class ignores them
\* (type 'influence').  simType is the class the loop constructs.
SimInit ==
  /\ iterations \in 0..MaxIterations
  /\ loyalistCount \in 0..MaxSimActors
  /\ traitorCount \in 0..MaxSimActors
  /\ loyalistCount + traitorCount <= MaxSimActors
  /\ type \in FourthArguments
  /\ endCondition \in (IF type = "random" THEN EndConditions
                       ELSE {"first_traitor_removed"})
  /\ gameType \in (IF type = "random" THEN GameTypes ELSE {"random"})
  /\ simType = (IF type = "influence" THEN "influence" ELSE "random")
  /\ iteration = 0
  /\ results = <<>>
  /\ stats = <<>>
  /\ histData = <<>>
  /\ pc = "for"
  /\ NoGame

\* Mutant of SimulationContinues: <= in place of <.
SimulationContinues_OffByOne == iteration <= iterations

\* for (let i = 0; i < iterations; i++)
SimulationContinues == iteration < iterations

\* The loop test holds: const game = type === 'influence' ? new
\* InfluenceVotingGame(L, T) : new VotingGame(L, T, endCondition, gameType),
\* and game.run() is entered.
SimConstruct ==
  /\ pc = "for"
  /\ SimulationContinues
  /\ actors' = NewActors(loyalistCount, traitorCount)
  /\ influenceScores' \in InfluenceScoreMaps
  /\ pc' = "loop"
  /\ UNCHANGED <<simType, loyalistCount, traitorCount, endCondition, gameType,
                 roundHistory, currentRound, loyalistSuspects, phaseOneLocals,
                 removedId, startActive, result, iterations, type, iteration,
                 results, stats, histData>>

\* { rounds: result.totalRounds, outcome: result.outcome }
SimulationResult ==
  [rounds |-> result.totalRounds, outcome |-> result.outcome]

\* game.run() has returned: results.push(...), i++, and game and result go
\* out of scope.
SimPush ==
  /\ pc = "done"
  /\ results' = Append(results, SimulationResult)
  /\ iteration' = iteration + 1
  /\ pc' = "for"
  /\ actors' = <<>>
  /\ roundHistory' = <<>>
  /\ currentRound' = 0
  /\ loyalistSuspects' = <<>>
  /\ influenceScores' = <<>>
  /\ startActive' = {}
  /\ result' = <<>>
  /\ UNCHANGED <<simType, loyalistCount, traitorCount, endCondition, gameType,
                 phaseOneLocals, removedId, iterations, type, stats, histData>>

\* The loop test fails: return results.
SimReturn ==
  /\ pc = "for"
  /\ ~SimulationContinues
  /\ pc' = "returned"
  /\ UNCHANGED <<config, actors, roundHistory, currentRound, loyalistSuspects,
                 phaseOneLocals, removedId, startActive, result>>

SimNext ==
  \/ Next
  \/ SimConstruct
  \/ SimPush
  \/ SimReturn

SimSpec == SimInit /\ [][SimNext]_vars

\* ------------------------------------------------ calculateStatistics
\* A JavaScript number is modelled exactly: a rational num/den in lowest
\* terms with den > 0, [sqrt |-> x] for the square root of a rational x that
\* has no rational root, and NotANumber for NaN and undefined.
RECURSIVE Gcd(_, _)
Gcd(a, b) == IF b = 0 THEN a ELSE Gcd(b, a % b)

Abs(n) == IF n < 0 THEN -n ELSE n

\* n / d for integers n and d # 0.
Fraction(n, d) ==
  LET g == Gcd(Abs(n), Abs(d))
      sign == IF d < 0 THEN -1 ELSE 1
  IN [num |-> sign * (n \div g), den |-> sign * (d \div g)]

Number(n) == [num |-> n, den |-> 1]
NotANumber == [nan |-> TRUE]

Plus(x, y) == Fraction(x.num * y.den + y.num * x.den, x.den * y.den)
Minus(x, y) == Fraction(x.num * y.den - y.num * x.den, x.den * y.den)
Times(x, y) == Fraction(x.num * y.num, x.den * y.den)
\* x / n for an integer n # 0.
Over(x, n) == Fraction(x.num, x.den * n)

\* Math.sqrt of a rational x >= 0.
Sqrt(x) ==
  IF \E p \in 0..x.num, q \in 1..x.den : p * p = x.num /\ q * q = x.den
  THEN LET p == CHOOSE a \in 0..x.num : a * a = x.num
           q == CHOOSE b \in 1..x.den : b * b = x.den
       IN [num |-> p, den |-> q]
  ELSE [sqrt |-> x]

\* The batches the model hands to calculateStatistics.
Batches ==
  UNION {[1..n -> [rounds : 0..MaxRounds, outcome : Outcomes]] : n \in 0..MaxBatch}

\* results.map(r => r.rounds)
Rounds(rs) == [k \in 1..Len(rs) |-> rs[k].rounds]

\* One step of the sort: x put before the first element of the ascending
\* sequence t that is not smaller.
RECURSIVE Insert(_, _)
Insert(x, t) ==
  IF t = <<>> THEN <<x>>
  ELSE IF x <= Head(t) THEN <<x>> \o t
       ELSE <<Head(t)>> \o Insert(x, Tail(t))

\* Mutant of SortAscending: the array is left in its input order.
SortAscending_Unsorted(r) == r

\* [...rounds].sort((a, b) => a - b)
RECURSIVE SortAscending(_)
SortAscending(r) ==
  IF r = <<>> THEN <<>> ELSE Insert(Head(r), SortAscending(Tail(r)))

\* rounds.reduce((sum, val) => sum + val, 0), from index k on.
RECURSIVE Sum(_, _)
Sum(r, k) ==
  IF k > Len(r) THEN Number(0) ELSE Plus(Number(r[k]), Sum(r, k + 1))

\* mean: the sum of the rounds values over their number.
Mean(r) == Over(Sum(r, 1), Len(r))

\* median, from the sorted array (JavaScript indexes are 0-based).
Median(sorted) ==
  IF Len(sorted) % 2 = 0
  THEN Over(Number(sorted[Len(sorted) \div 2] + sorted[Len(sorted) \div 2 + 1]), 2)
  ELSE Number(sorted[Len(sorted) \div 2 + 1])

\* The frequency Map: its keys in insertion order (the order in which each
\* value first occurs in rounds), and the count it holds for a value.
FrequencyKeys(r) ==
  LET first == {k \in 1..Len(r) : \A j \in 1..(k - 1) : r[j] # r[k]}
  IN [n \in 1..Cardinality(first) |->
        r[CHOOSE k \in first : Cardinality({j \in first : j < k}) = n - 1]]
Frequency(r, value) == Cardinality({k \in 1..Len(r) : r[k] = value})

\* Mutant of ModeLoop: >= in place of >, so the last key with the highest
\* count wins.
RECURSIVE ModeLoop_LastWins(_, _, _, _)
ModeLoop_LastWins(r, n, maxFreq, mode) ==
  IF n > Len(FrequencyKeys(r)) THEN mode
  ELSE LET value == FrequencyKeys(r)[n]
       IN IF Frequency(r, value) >= maxFreq
          THEN ModeLoop_LastWins(r, n + 1, Frequency(r, value), value)
          ELSE ModeLoop_LastWins(r, n + 1, maxFreq, mode)

\* The loop over frequency.entries() from entry n on.
RECURSIVE ModeLoop(_, _, _, _)
ModeLoop(r, n, maxFreq, mode) ==
  IF n > Len(FrequencyKeys(r)) THEN mode
  ELSE LET value == FrequencyKeys(r)[n]
       IN IF Frequency(r, value) > maxFreq
          THEN ModeLoop(r, n + 1, Frequency(r, value), value)
          ELSE ModeLoop(r, n + 1, maxFreq, mode)

\* let mode = rounds[0]; let maxFreq = 0; and the loop.
Mode(r) == ModeLoop(r, 1, 0, r[1])

\* rounds.reduce((sum, val) => sum + Math.pow(val - mean, 2), 0), from
\* index k on.
RECURSIVE SumOfSquares(_, _, _)
SumOfSquares(r, mean, k) ==
  IF k > Len(r) THEN Number(0)
  ELSE Plus(Times(Minus(Number(r[k]), mean), Minus(Number(r[k]), mean)),
            SumOfSquares(r, mean, k + 1))

\* Mutant of Variance: the mean is subtracted from the mean of the squares
\* without being squared.
Variance_MeanNotSquared(r) ==
  Minus(Over(SumOfSquares(r, Number(0), 1), Len(r)), Mean(r))

\* variance: the mean of the squared distances from the mean.
Variance(r) == Over(SumOfSquares(r, Mean(r), 1), Len(r))

\* calculateStatistics on a non-empty batch.
Statistics(rs) ==
  LET r == Rounds(rs)
      sorted == SortAscending(r)
  IN [mean |-> Mean(r),
      median |-> Median(sorted),
      mode |-> Number(Mode(r)),
      min |-> Number(sorted[1]),
      max |-> Number(sorted[Len(sorted)]),
      stdDev |-> Sqrt(Variance(r))]

\* Mutant of calculateStatistics: no early return for the empty batch, which
\* then reads undefined elements and divides 0 by 0.
calculateStatistics_NoEmptyCase(rs) ==
  IF Len(rs) = 0
  THEN [mean |-> NotANumber, median |-> NotANumber, mode |-> NotANumber,
        min |-> NotANumber, max |-> NotANumber, stdDev |-> NotANumber]
  ELSE Statistics(rs)

calculateStatistics(rs) ==
  IF Len(rs) = 0
  THEN [mean |-> Number(0), median |-> Number(0), mode |-> Number(0),
        min |-> Number(0), max |-> Number(0), stdDev |-> Number(0)]
  ELSE Statistics(rs)

\* A caller holds a batch of results and no game.
StatsInit ==
  /\ results \in Batches
  /\ stats = <<>>
  /\ histData = <<>>
  /\ pc = "calculate"
  /\ simType = "random"
  /\ type = "random"
  /\ loyalistCount = 0
  /\ traitorCount = 0
  /\ endCondition = "first_traitor_removed"
  /\ gameType = "random"
  /\ iterations = 0
  /\ iteration = 0
  /\ NoGame

\* The call calculateStatistics(results).
CalculateStatistics ==
  /\ pc = "calculate"
  /\ stats' = calculateStatistics(results)
  /\ pc' = "calculated"
  /\ UNCHANGED <<simType, loyalistCount, traitorCount, endCondition, gameType,
                 actors, roundHistory, currentRound, loyalistSuspects,
                 influenceScores, phaseOneLocals, removedId, startActive, result,
                 iterations, type, iteration, results, histData>>

StatsNext == CalculateStatistics

StatsSpec == StatsInit /\ [][StatsNext]_vars

\* ---------------------------------------------------------- Histogram
\* SimulationResult.outcome (interfaces.ts).
SimulationOutcomes == {"traitor_removed", "no_loyalists", "all_traitors", "all_loyalists"}

\* The data a Histogram can be given: the results of games of one end
\* condition, each of at least one round.
HistogramInputs ==
  UNION {[1..n -> [rounds : 1..MaxRounds, outcome : O]] :
           n \in 0..MaxBatch,
           O \in {{"traitor_removed", "no_loyalists"}, {"all_loyalists", "all_traitors"}}}

\* dataByRounds.get(result.rounds) || { loyalistWins: 0, traitorWins: 0 }
Existing(m, rounds) ==
  IF rounds \in DOMAIN m THEN m[rounds] ELSE [loyalistWins |-> 0, traitorWins |-> 0]

\* One iteration of the loop over data: the counts of result.rounds after it.
Counted(m, res) ==
  IF res.outcome = "traitor_removed"
  THEN [Existing(m, res.rounds) EXCEPT !.loyalistWins = @ + 1]
  ELSE [Existing(m, res.rounds) EXCEPT !.traitorWins = @ + 1]

\* dataByRounds after the loop has handled data[1..k].
RECURSIVE dataByRounds(_, _)
dataByRounds(data, k) ==
  IF k = 0 THEN <<>>
  ELSE LET m == dataByRounds(data, k - 1)
       IN [r \in (DOMAIN m) \cup {data[k].rounds} |->
             IF r = data[k].rounds THEN Counted(m, data[k]) ELSE m[r]]

\* The keys of a Map in ascending order (the sort by rounds).
RECURSIVE Ascending(_)
Ascending(S) ==
  IF S = {} THEN <<>>
  ELSE LET least == CHOOSE x \in S : \A y \in S : x <= y
       IN <<least>> \o Ascending(S \ {least})

\* histData: one point per rounds value, sorted by rounds.
HistDataPoints(data) ==
  LET m == dataByRounds(data, Len(data))
      keys == Ascending(DOMAIN m)
  IN [i \in 1..Len(keys) |->
        [rounds |-> keys[i],
         loyalistWins |-> m[keys[i]].loyalistWins,
         traitorWins |-> m[keys[i]].traitorWins,
         total |-> m[keys[i]].loyalistWins + m[keys[i]].traitorWins]]

\* <Histogram data={results} />: the component is given its data.
HistInit ==
  /\ results \in HistogramInputs
  /\ stats = <<>>
  /\ histData = <<>>
  /\ pc = "render"
  /\ simType = "random"
  /\ type = "random"
  /\ loyalistCount = 0
  /\ traitorCount = 0
  /\ endCondition = "first_traitor_removed"
  /\ gameType = "random"
  /\ iterations = 0
  /\ iteration = 0
  /\ NoGame

\* The effect of the component: it returns at once for empty data, otherwise it
\* builds histData and draws it.
DrawHistogram ==
  /\ pc = "render"
  /\ histData' = IF Len(results) = 0 THEN <<>> ELSE HistDataPoints(results)
  /\ pc' = "drawn"
  /\ UNCHANGED <<simType, loyalistCount, traitorCount, endCondition, gameType,
                 actors, roundHistory, currentRound, loyalistSuspects,
                 influenceScores, phaseOneLocals, removedId, startActive, result,
                 iterations, type, iteration, results, stats>>

HistNext == DrawHistogram

HistSpec == HistInit /\ [][HistNext]_vars




\* ================================================================ claims
\* Shorthands used by the properties below.
ValidCounts == loyalistCount >= 1 /\ traitorCount >= 1
IsVotingGame == simType = "random"
Returned == pc = "done"
RemovedTraitors == {id \in Ids : find(id).type = "traitor" /\ find(id).status = "removed"}
\* The ids active when recorded round k started, and after its phase one.
ActiveBefore(k) ==
  IF k = 1 THEN Ids ELSE IdsOf(roundHistory[k - 1].remainingActors)
AfterPhaseOne(k) == ActiveBefore(k) \ {roundHistory[k].phaseOneRemoved}
Loyalists(S) == {id \in S : find(id).type = "loyalist"}
Traitors(S) == {id \in S : find(id).type = "traitor"}

\* The number of steps run() can still take is bounded by Rank: the active
\* actors weigh most, then the position in the round, then the tie-break
\* re-votes still allowed.
PositionRank ==
  CASE pc = "done" -> 0
    [] pc = "return" -> 1
    [] pc = "afterPhaseOne" -> 2
    [] pc = "tieBreak" -> 3 + (MAX_TIE_BREAKS - tieBreakAttempts)
    [] pc = "phaseOne" -> MAX_TIE_BREAKS + 4
    [] pc = "loop" -> MAX_TIE_BREAKS + 5
Rank == (MAX_TIE_BREAKS + 6) * Cardinality(ActiveIds) + PositionRank

\* C1: a VotingGame built with L >= 1 and T >= 1 (either end condition, either
\* loyalist strategy) returns from run() after finitely many rounds: until it
\* has returned a step is always possible, every step lowers the natural number
\* Rank, and on return 1 <= totalRounds <= L + T.
C1_RunTerminatesWithinPopulation ==
  /\ []((IsVotingGame /\ ValidCounts) =>
          /\ Rank >= 0
          /\ ~Returned => ENABLED Next
          /\ Returned => /\ result.totalRounds >= 1
                         /\ result.totalRounds <= loyalistCount + traitorCount)
  /\ [][(IsVotingGame /\ ValidCounts) => Rank' < Rank]_vars

C1_Witness ==
  /\ Returned /\ IsVotingGame /\ ValidCounts
  /\ endCondition = "all_one_type" /\ gameType = "fixate"
  /\ result.totalRounds = 2

\* C2: for L, T >= 1 the outcome a VotingGame returns is one the configured end
\* condition allows, and the returned endCondition is the configured one.
C2_OutcomeAllowedByEndCondition ==
  (Returned /\ IsVotingGame /\ ValidCounts) =>
    /\ result.endCondition = endCondition
    /\ endCondition = "first_traitor_removed" =>
         result.outcome \in {"traitor_removed", "no_loyalists"}
    /\ endCondition = "all_one_type" =>
         result.outcome \in {"all_loyalists", "all_traitors"}

C2_Witness ==
  /\ Returned /\ IsVotingGame /\ ValidCounts
  /\ endCondition = "all_one_type" /\ result.outcome = "all_traitors"
  /\ result.totalRounds = 2

\* C3: under first_traitor_removed a VotingGame halts in the round whose phase
\* one removes a traitor: that round is the last one recorded, it has
\* phaseTwoRemoved = -1, no vote or round follows it, and the outcome is
\* traitor_removed.
C3_HaltsInRoundTraitorRemoved ==
  (IsVotingGame /\ endCondition = "first_traitor_removed") =>
    /\ RemovedTraitors # {} => pc \in {"afterPhaseOne", "return", "done"}
    /\ \A k \in 1..Len(roundHistory) :
         find(roundHistory[k].phaseOneRemoved).type = "traitor" =>
           /\ k = Len(roundHistory)
           /\ k = currentRound
           /\ roundHistory[k].phaseTwoRemoved = NONE_REMOVED
           /\ IdsOf(roundHistory[k].remainingActors) = AfterPhaseOne(k)
           /\ pc \in {"return", "done"}
           /\ Returned => /\ result.outcome = "traitor_removed"
                          /\ result.totalRounds = k

C3_Witness ==
  /\ Returned /\ IsVotingGame /\ endCondition = "first_traitor_removed"
  /\ Len(roundHistory) = 2
  /\ find(roundHistory[2].phaseOneRemoved).type = "traitor"

\* C4: under first_traitor_removed with L, T >= 1 the outcome is traitor_removed
\* exactly when a traitor was removed, and no_loyalists exactly when no loyalist
\* is active and all T traitors are.
C4_OutcomeIffTraitorRemoved ==
  (Returned /\ IsVotingGame /\ ValidCounts /\ endCondition = "first_traitor_removed") =>
    /\ result.outcome = "traitor_removed" <=> RemovedTraitors # {}
    /\ result.outcome = "no_loyalists" <=>
         (ActiveLoyalistIds = {} /\ Cardinality(ActiveTraitorIds) = traitorCount)

C4_Witness ==
  /\ Returned /\ IsVotingGame /\ ValidCounts
  /\ endCondition = "first_traitor_removed"
  /\ result.outcome = "no_loyalists" /\ result.totalRounds = 2

\* C5: under all_one_type a VotingGame leaves its loop only with no active
\* loyalist or no active traitor; a round whose phase one removes a traitor while
\* another traitor stays active goes on to phase two, which removes a loyalist.
C5_AllOneTypeHaltsOnlyWhenEliminated ==
  (IsVotingGame /\ endCondition = "all_one_type") =>
    /\ pc \in {"return", "done"} => (ActiveLoyalistIds = {} \/ ActiveTraitorIds = {})
    /\ \A k \in 1..Len(roundHistory) :
         (/\ find(roundHistory[k].phaseOneRemoved).type = "traitor"
          /\ Traitors(AfterPhaseOne(k)) # {}) =>
           /\ roundHistory[k].phaseTwoRemoved \in Loyalists(AfterPhaseOne(k))
           /\ IdsOf(roundHistory[k].remainingActors) =
                AfterPhaseOne(k) \ {roundHistory[k].phaseTwoRemoved}

C5_Witness ==
  /\ IsVotingGame /\ endCondition = "all_one_type"
  /\ Len(roundHistory) = 1
  /\ find(roundHistory[1].phaseOneRemoved).type = "traitor"
  /\ Traitors(AfterPhaseOne(1)) # {}
  /\ roundHistory[1].phaseTwoRemoved # NONE_REMOVED
  /\ pc = "loop"

\* C6: under all_one_type with L, T >= 1 the outcome is all_loyalists exactly
\* when no traitor is active (and a loyalist is), and all_traitors exactly when
\* no loyalist is active (and a traitor is).
C6_AllOneTypeOutcome ==
  (Returned /\ IsVotingGame /\ ValidCounts /\ endCondition = "all_one_type") =>
    /\ result.outcome = "all_loyalists" <=>
         (ActiveTraitorIds = {} /\ ActiveLoyalistIds # {})
    /\ result.outcome = "all_traitors" <=>
         (ActiveLoyalistIds = {} /\ ActiveTraitorIds # {})

C6_Witness ==
  /\ Returned /\ IsVotingGame /\ ValidCounts /\ endCondition = "all_one_type"
  /\ result.outcome = "all_loyalists" /\ result.totalRounds = 2

\* C7: in the GameResult of either game rounds.length = totalRounds and the
\* k-th round has roundNumber k.
C7_RoundsNumberedSequentially ==
  Returned =>
    /\ Len(result.rounds) = result.totalRounds
    /\ \A k \in 1..Len(result.rounds) : result.rounds[k].roundNumber = k

C7_Witness ==
  /\ Returned /\ Len(result.rounds) = 2 /\ result.rounds[2].roundNumber = 2

\* C8: with L, T >= 1 every recorded round leaves exactly 1 or exactly 2 actors
\* fewer than the round before it (L + T before the first round).
C8_RemainingDropsByOneOrTwo ==
  ValidCounts =>
    \A k \in 1..Len(roundHistory) :
      Cardinality(ActiveBefore(k)) - Len(roundHistory[k].remainingActors) \in {1, 2}

C8_Witness ==
  /\ ValidCounts /\ Len(roundHistory) = 2
  /\ Cardinality(ActiveBefore(1)) - Len(roundHistory[1].remainingActors) = 2
  /\ Cardinality(ActiveBefore(2)) - Len(roundHistory[2].remainingActors) = 1

\* The game is over once phase one of recorded round k is done: a traitor was
\* removed under first_traitor_removed, or one side has no active actor.
OverAfterPhaseOne(k) ==
  \/ /\ endCondition = "first_traitor_removed"
     /\ find(roundHistory[k].phaseOneRemoved).type = "traitor"
  \/ Loyalists(AfterPhaseOne(k)) = {}
  \/ Traitors(AfterPhaseOne(k)) = {}

\* C9: phase two of a VotingGame round runs only when the game is not over after
\* phase one, and then removes exactly one actor, an active loyalist; when the
\* game is over after phase one the round has phaseTwoRemoved = -1 and no second
\* removal.
C9_PhaseTwoOnlyWhenNotOver ==
  (IsVotingGame /\ ValidCounts) =>
    \A k \in 1..Len(roundHistory) :
      IF OverAfterPhaseOne(k)
      THEN /\ roundHistory[k].phaseTwoRemoved = NONE_REMOVED
           /\ IdsOf(roundHistory[k].remainingActors) = AfterPhaseOne(k)
      ELSE /\ roundHistory[k].phaseTwoRemoved \in Loyalists(AfterPhaseOne(k))
           /\ IdsOf(roundHistory[k].remainingActors) =
                AfterPhaseOne(k) \ {roundHistory[k].phaseTwoRemoved}

C9_Witness ==
  /\ IsVotingGame /\ ValidCounts /\ Len(roundHistory) = 2
  /\ ~OverAfterPhaseOne(1) /\ roundHistory[1].phaseTwoRemoved # NONE_REMOVED
  /\ OverAfterPhaseOne(2) /\ roundHistory[2].phaseTwoRemoved = NONE_REMOVED

\* C10: phase one of either game holds at most MAX_TIE_BREAKS re-votes after the
\* initial vote, so at most MAX_TIE_BREAKS + 1 votes before the removal.
C10_AtMostTenTieBreaks ==
  /\ tieBreakAttempts <= MAX_TIE_BREAKS
  /\ votesHeld <= MAX_TIE_BREAKS + 1
  /\ pc = "tieBreak" => votesHeld = tieBreakAttempts + 1

C10_Witness ==
  /\ pc = "tieBreak" /\ votesHeld = MAX_TIE_BREAKS + 1
  /\ Cardinality(mostVoted) > 1

\* C11: throughout a game the roster holds exactly L + T actors with ids
\* 0..L+T-1 in order, ids below L being loyalists and the others traitors; no
\* step changes an actor's id or faction, and no step turns a removed actor
\* active again.
C11_RosterFixed ==
  /\ [](/\ Len(actors) = loyalistCount + traitorCount
        /\ \A i \in 1..Len(actors) :
             /\ actors[i].id = i - 1
             /\ actors[i].type = (IF i - 1 < loyalistCount THEN "loyalist" ELSE "traitor")
             /\ actors[i].status \in {"active", "removed"})
  /\ [][/\ Len(actors') = Len(actors)
        /\ \A i \in 1..Len(actors) :
             /\ actors'[i].id = actors[i].id
             /\ actors'[i].type = actors[i].type
             /\ actors[i].status = "removed" => actors'[i].status = "removed"]_vars

C11_Witness ==
  /\ ValidCounts /\ pc = "loop" /\ Len(roundHistory) = 1
  /\ Cardinality(Ids \ ActiveIds) = 2 /\ Cardinality(ActiveIds) = 2

\* The number of votes a tally holds.
RECURSIVE SumTally(_)
SumTally(v) ==
  IF DOMAIN v = {} THEN 0
  ELSE LET t == CHOOSE x \in DOMAIN v : TRUE
       IN v[t] + SumTally([u \in (DOMAIN v) \ {t} |-> v[u]])

\* C12: the phaseOneVotes recorded for a round is the tally of the last vote
\* held in it: each vote step leaves in votes the tally of that vote (one vote
\* per voter, and the most voted ids are those of that tally), the removal step
\* keeps it, and the step that records the round copies it.  The recorded tally is non-empty, its counts are positive, they
\* sum to at most the number of actors active when the round started, and its
\* keys are ids of actors active when the round started.
C12_PhaseOneVotesIsLastTally ==
  /\ [](\A k \in 1..Len(roundHistory) :
          LET v == roundHistory[k].phaseOneVotes
          IN /\ DOMAIN v # {}
             /\ \A t \in DOMAIN v : v[t] \in Nat /\ v[t] >= 1
             /\ SumTally(v) <= Cardinality(ActiveBefore(k))
             /\ DOMAIN v \subseteq ActiveBefore(k))
  /\ [][/\ votesHeld' = votesHeld + 1 =>
             /\ SumTally(votes') = Cardinality(voters')
             /\ mostVoted' = findMostVoted(votes')
        /\ (pc = "tieBreak" /\ pc' = "afterPhaseOne") => votes' = votes
        /\ Len(roundHistory') = Len(roundHistory) + 1 =>
             roundHistory'[Len(roundHistory')].phaseOneVotes = votes]_vars

\* A recorded round in which one actor received the vote of every active actor,
\* its own included: only a tie-break re-vote lets an actor vote for itself.
C12_Witness ==
  /\ Len(roundHistory) = 2
  /\ \E t \in DOMAIN roundHistory[2].phaseOneVotes :
       roundHistory[2].phaseOneVotes[t] = Cardinality(ActiveBefore(2))

\* C13: an InfluenceVotingGame ends in the first round whose phase one removes
\* a traitor: that round is the last one recorded, it has phaseTwoRemoved = -1,
\* no step of a later round follows, and the outcome is traitor_removed;
\* otherwise it ends when no loyalist remains, with outcome no_loyalists.
C13_InfluenceHaltsWhenTraitorRemoved ==
  (simType = "influence" /\ ValidCounts) =>
    /\ \A k \in 1..Len(roundHistory) :
         find(roundHistory[k].phaseOneRemoved).type = "traitor" =>
           /\ k = Len(roundHistory)
           /\ roundHistory[k].phaseTwoRemoved = NONE_REMOVED
           /\ pc \in {"return", "done"}
    /\ Returned =>
         /\ result.outcome = "traitor_removed" <=> RemovedTraitors # {}
         /\ result.outcome = "no_loyalists" <=>
              (RemovedTraitors = {} /\ ActiveLoyalistIds = {})

\* C15: a VotingGame constructed as new VotingGame(L, T, 'fixate') with
\* L, T >= 1 plays the fixate loyalist strategy under the default end condition
\* first_traitor_removed, and its outcome is traitor_removed or no_loyalists.
C15_FixateAsThirdArgument ==
  (IsVotingGame /\ ValidCounts /\ endCondition \notin EndConditions) =>
    /\ gameType = "fixate"
    /\ Returned =>
         /\ result.endCondition = "first_traitor_removed"
         /\ result.outcome \in {"traitor_removed", "no_loyalists"}

\* C17: a game built with a non-positive loyalist or traitor count is rejected
\* at construction: run() takes no step on it and returns no GameResult.
C17_NonPositiveCountsRejected ==
  ~ValidCounts => (~ENABLED Next /\ result = <<>>)

\* C14: runSimulation with iterations >= 1 and L, T >= 1 returns exactly
\* iterations results: each result is appended when a game has returned, after
\* the results of the games before it, and carries that game's totalRounds (as
\* rounds, an integer >= 1) and outcome.
C14_OneResultPerGameInOrder ==
  /\ []((iterations >= 1 /\ ValidCounts) =>
          /\ Len(results) = iteration
          /\ iteration <= iterations
          /\ pc = "returned" => Len(results) = iterations
          /\ \A k \in 1..Len(results) :
               results[k].rounds \in Nat /\ results[k].rounds >= 1)
  /\ [][(iterations >= 1 /\ ValidCounts /\ results' # results) =>
          /\ pc = "done"
          /\ results' = Append(results, [rounds |-> result.totalRounds,
                                         outcome |-> result.outcome])]_vars

C14_Witness ==
  /\ pc = "returned" /\ iterations = 2 /\ ValidCounts
  /\ results[1].outcome = "no_loyalists" /\ results[2].outcome = "traitor_removed"
  /\ results[1].rounds = 2 /\ results[2].rounds = 1

\* C16: runSimulation(iterations, L, T, 'fixate') runs every game of the batch
\* with the fixate loyalist strategy: each game it constructs is a VotingGame
\* with gameType fixate, whose loyalists hold a suspect once they have voted.
C16_FourthArgumentIsGameType ==
  (type = "fixate" /\ actors # <<>>) =>
    /\ simType = "random"
    /\ gameType = "fixate"
    /\ pc = "tieBreak" => ActiveLoyalistIds \subseteq DOMAIN loyalistSuspects

\* C18: calculateStatistics on an empty batch returns 0 for mean, median,
\* mode, min, max and stdDev.
C18_EmptyBatchAllZero ==
  (pc = "calculated" /\ Len(results) = 0) =>
    /\ stats.mean = Number(0)
    /\ stats.median = Number(0)
    /\ stats.mode = Number(0)
    /\ stats.min = Number(0)
    /\ stats.max = Number(0)
    /\ stats.stdDev = Number(0)

C18_Witness == pc = "calculated" /\ results = <<>>

\* C19: on a non-empty batch whose rounds values all equal one value v,
\* calculateStatistics returns v for mean, median, mode, min and max, and 0 for
\* stdDev.
C19_ConstantBatch ==
  (/\ pc = "calculated"
   /\ Len(results) >= 1
   /\ \A k \in 1..Len(results) : results[k].rounds = results[1].rounds) =>
    /\ stats.mean = Number(results[1].rounds)
    /\ stats.median = Number(results[1].rounds)
    /\ stats.mode = Number(results[1].rounds)
    /\ stats.min = Number(results[1].rounds)
    /\ stats.max = Number(results[1].rounds)
    /\ stats.stdDev = Number(0)

C19_Witness ==
  /\ pc = "calculated" /\ Len(results) = 3
  /\ \A k \in 1..3 : results[k].rounds = 2
  /\ stats.mean = [num |-> 2, den |-> 1]

\* The k-th smallest rounds value of the batch, counted with repetitions:
\* fewer than k values lie below it and at least k values do not exceed it.
KthSmallest(k) ==
  CHOOSE v \in {results[j].rounds : j \in 1..Len(results)} :
    /\ Cardinality({j \in 1..Len(results) : results[j].rounds < v}) < k
    /\ Cardinality({j \in 1..Len(results) : results[j].rounds <= v}) >= k

\* C20: on a non-empty batch calculateStatistics returns as median the middle
\* one of the rounds values taken in ascending order when their number is odd,
\* and half the sum of the two middle ones when it is even, whatever the order
\* of the batch.
C20_MedianOfSortedValues ==
  (pc = "calculated" /\ Len(results) >= 1) =>
    IF Len(results) % 2 = 1
    THEN stats.median = [num |-> KthSmallest((Len(results) + 1) \div 2), den |-> 1]
    ELSE \/ /\ (KthSmallest(Len(results) \div 2)
                + KthSmallest(Len(results) \div 2 + 1)) % 2 = 0
            /\ stats.median =
                 [num |-> (KthSmallest(Len(results) \div 2)
                           + KthSmallest(Len(results) \div 2 + 1)) \div 2,
                  den |-> 1]
         \/ /\ (KthSmallest(Len(results) \div 2)
                + KthSmallest(Len(results) \div 2 + 1)) % 2 = 1
            /\ stats.median =
                 [num |-> KthSmallest(Len(results) \div 2)
                          + KthSmallest(Len(results) \div 2 + 1),
                  den |-> 2]

\* An even batch given in descending order whose median is 3/2.
C20_Witness ==
  /\ pc = "calculated" /\ Len(results) = 4
  /\ \A k \in 1..4 : results[k].rounds = 4 - k
  /\ stats.median = [num |-> 3, den |-> 2]

\* The number of results of the batch whose rounds value is v.
Occurrences(v) == Cardinality({j \in 1..Len(results) : results[j].rounds = v})

\* C21: on a non-empty batch calculateStatistics returns as mode a rounds value
\* that no other value outnumbers, and of the values with that highest number
\* of occurrences the one that comes first in the batch as given.
C21_ModeIsFirstMostFrequent ==
  (pc = "calculated" /\ Len(results) >= 1) =>
    \E k \in 1..Len(results) :
      /\ stats.mode = [num |-> results[k].rounds, den |-> 1]
      /\ \A j \in 1..Len(results) :
           Occurrences(results[j].rounds) <= Occurrences(results[k].rounds)
      /\ \A j \in 1..(k - 1) :
           Occurrences(results[j].rounds) < Occurrences(results[k].rounds)

\* Two values occur twice each; the larger one comes first in the batch.
C21_Witness ==
  /\ pc = "calculated" /\ Len(results) = 4
  /\ results[1].rounds = 3 /\ results[2].rounds = 1
  /\ results[3].rounds = 1 /\ results[4].rounds = 3
  /\ stats.mode = [num |-> 3, den |-> 1]

\* Phase one has held its last vote and the tally is still tied between several
\* actors (the loop ended on its tenth re-vote).
StillTied == pc = "tieBreak" /\ ~TieBreakContinues /\ Cardinality(mostVoted) > 1
\* Phase one has held its last vote and nobody received a vote.
NobodyVoted == pc = "tieBreak" /\ ~TieBreakContinues /\ mostVoted = {}

\* C22 as stated: when phase one is still tied after MAX_TIE_BREAKS re-votes,
\* or the tally is empty, every active actor can be the one removed.
C22_FallbackAmongAllActive ==
  (StillTied \/ NobodyVoted) =>
    \A x \in ActiveIds : ENABLED (PhaseOneRemove /\ removedId' = x)

\* C22 amended: when phase one is still tied after MAX_TIE_BREAKS re-votes the
\* actors that can be removed are exactly the tied ones; every active actor can
\* be removed only when the tally is empty.
C22_FallbackAmongTied ==
  /\ StillTied =>
       \A x \in ActiveIds :
         (ENABLED (PhaseOneRemove /\ removedId' = x)) <=> x \in mostVoted
  /\ NobodyVoted =>
       \A x \in ActiveIds : ENABLED (PhaseOneRemove /\ removedId' = x)

\* Phase one removed one of two actors that were still tied in the last tally
\* while four actors were active.
C22_Witness ==
  /\ pc = "afterPhaseOne"
  /\ Cardinality(startActive) = 4
  /\ Cardinality(findMostVoted(votes)) = 2
  /\ removedId \in findMostVoted(votes)

HoldsMaximum(id, tally) ==
  id \in DOMAIN tally /\ \A t \in DOMAIN tally : tally[t] <= tally[id]

\* C24: the actor phase one removes holds the maximum count of the round's
\* recorded phaseOneVotes (so when one actor alone holds the maximum, it is the
\* one removed); this holds as soon as the removal is made and in every
\* recorded round.
C24_RemovedHoldsMaximum ==
  /\ pc = "afterPhaseOne" => HoldsMaximum(removedId, votes)
  /\ \A k \in 1..Len(roundHistory) :
       HoldsMaximum(roundHistory[k].phaseOneRemoved, roundHistory[k].phaseOneVotes)

\* A recorded round whose tally has several keys and a single highest count.
C24_Witness ==
  /\ Len(roundHistory) = 1
  /\ Cardinality(DOMAIN roundHistory[1].phaseOneVotes) = 3
  /\ \A t \in DOMAIN roundHistory[1].phaseOneVotes :
       t # roundHistory[1].phaseOneRemoved =>
         roundHistory[1].phaseOneVotes[t]
           < roundHistory[1].phaseOneVotes[roundHistory[1].phaseOneRemoved]

\* The initial vote of the current round has just been held (no re-vote yet).
InitialVoteHeld == pc = "tieBreak" /\ votesHeld = 1

\* C25: in the initial vote of a VotingGame round every vote goes to an active
\* actor other than the voter, and every traitor's vote goes to a loyalist.
C25_InitialVoteTargets ==
  (IsVotingGame /\ InitialVoteHeld) =>
    \A a \in DOMAIN ballots :
      /\ ballots[a] \in ActiveIds
      /\ ballots[a] # a
      /\ find(a).type = "traitor" => find(ballots[a]).type = "loyalist"

\* An initial vote in which a loyalist voted for a loyalist, another loyalist
\* for a traitor, and a traitor voted.
C25_Witness ==
  /\ IsVotingGame /\ InitialVoteHeld
  /\ \E a, b \in Loyalists(DOMAIN ballots) :
       find(ballots[a]).type = "loyalist" /\ find(ballots[b]).type = "traitor"
  /\ Traitors(DOMAIN ballots) # {}

IsFixateGame == IsVotingGame /\ gameType = "fixate"

IsInfluenceGame == simType = "influence"

\* The targets open to a voter in an initial vote: every other active actor for
\* a loyalist, every active loyalist for a traitor.
InitialTargets(a) ==
  IF find(a).type = "loyalist" THEN ActiveIds \ {a} ELSE ActiveLoyalistIds

\* C27: in the initial vote of an InfluenceVotingGame round every voter votes
\* for a target open to it over which its influence score is lowest, and for the
\* first such target in roster order.
C27_InfluenceVotesLowest ==
  (IsInfluenceGame /\ InitialVoteHeld) =>
    \A a \in DOMAIN ballots :
      /\ ballots[a] \in InitialTargets(a)
      /\ \A u \in InitialTargets(a) :
           /\ influenceScores[<<a, ballots[a]>>] <= influenceScores[<<a, u>>]
           /\ influenceScores[<<a, ballots[a]>>] = influenceScores[<<a, u>>] =>
                ballots[a] <= u

\* One voter chose the first of two targets with the same lowest score, another
\* passed over an earlier target with a higher score.
C27_Witness ==
  /\ IsInfluenceGame /\ InitialVoteHeld
  /\ \E a \in DOMAIN ballots : \E u \in InitialTargets(a) :
       u > ballots[a] /\ influenceScores[<<a, u>>] = influenceScores[<<a, ballots[a]>>]
  /\ \E b \in DOMAIN ballots : \E u \in InitialTargets(b) :
       u < ballots[b] /\ influenceScores[<<b, u>>] > influenceScores[<<b, ballots[b]>>]

\* C28 as stated: in a tie-break re-vote of an InfluenceVotingGame every voter
\* can vote for any tied actor, so that for each tied actor a re-vote in which
\* it receives every vote is possible.
C28_InfluenceRevoteIsRandom ==
  (IsInfluenceGame /\ pc = "tieBreak" /\ TieBreakContinues) =>
    /\ \A a \in ActiveIds : VoterChoices(a, TRUE, tiedActors) = tiedActors
    /\ \A t \in tiedActors : ENABLED (TieBreakVote /\ DOMAIN votes' = {t})

\* The score an influence voter reads for a target: the stored score, 0 for
\* itself (no score is stored for the pair).
ScoreRead(a, t) == IF a = t THEN 0 ELSE influenceScores[<<a, t>>]

\* The tied actor an influence voter votes for in a re-vote.
LowestTied(a) ==
  CHOOSE t \in tiedActors :
    \A u \in tiedActors :
      /\ ScoreRead(a, t) <= ScoreRead(a, u)
      /\ ScoreRead(a, t) = ScoreRead(a, u) => t <= u

\* C28 amended: a tie-break re-vote of an InfluenceVotingGame keeps the
\* lowest-influence rule: every active actor votes for the tied actor over which
\* the score it reads is lowest (the first in roster order among equals), so
\* the re-vote has one possible tally.
C28_InfluenceRevoteIsLowest ==
  [][(IsInfluenceGame /\ votesHeld >= 1 /\ votesHeld' = votesHeld + 1) =>
       votes' = Tally([a \in ActiveIds |-> LowestTied(a)])]_vars

\* A re-vote among two tied actors of four in which the two others voted.
C28_Witness ==
  /\ IsInfluenceGame /\ pc = "tieBreak" /\ votesHeld = 2
  /\ Cardinality(ActiveIds) = 4
  /\ Cardinality(DOMAIN votes) = 2
  /\ \E t \in DOMAIN votes : votes[t] = 3

\* The sum of the scores actor l holds over the actors of S.
RECURSIVE ScoresOver(_, _)
ScoresOver(l, S) ==
  IF S = {} THEN 0
  ELSE LET o == CHOOSE x \in S : TRUE
       IN influenceScores[<<l, o>>] + ScoresOver(l, S \ {o})

\* The ids whose status a step changes.
JustRemoved == {id \in ActiveIds : id \notin ActiveIds'}

\* C29: phase two of an InfluenceVotingGame round removes one actor, an active
\* loyalist whose scores over the other active actors sum to the highest total
\* of all active loyalists, the first in roster order among those with that
\* total; the id recorded as phaseTwoRemoved is never a traitor's.
C29_InfluencePhaseTwoRemovesHighest ==
  /\ [](IsInfluenceGame =>
          \A k \in 1..Len(roundHistory) :
            roundHistory[k].phaseTwoRemoved # NONE_REMOVED =>
              find(roundHistory[k].phaseTwoRemoved).type = "loyalist")
  /\ [][(IsInfluenceGame /\ pc = "afterPhaseOne" /\ actors' # actors) =>
          \E t \in ActiveLoyalistIds :
            /\ JustRemoved = {t}
            /\ roundHistory'[Len(roundHistory')].phaseTwoRemoved = t
            /\ \A u \in ActiveLoyalistIds :
                 /\ ScoresOver(u, ActiveIds \ {u}) <= ScoresOver(t, ActiveIds \ {t})
                 /\ ScoresOver(u, ActiveIds \ {u}) = ScoresOver(t, ActiveIds \ {t}) =>
                      t <= u]_vars

\* Phase two removed a loyalist that comes after another loyalist still active
\* at that point: its total was strictly higher.
C29_Witness ==
  /\ IsInfluenceGame /\ Len(roundHistory) = 1
  /\ roundHistory[1].phaseTwoRemoved # NONE_REMOVED
  /\ \E u \in Loyalists(AfterPhaseOne(1)) : u < roundHistory[1].phaseTwoRemoved

\* The ids the recorded rounds removed, in order of removal.
RECURSIVE RemovalsUpTo(_)
RemovalsUpTo(k) ==
  IF k = 0 THEN <<>>
  ELSE RemovalsUpTo(k - 1) \o <<roundHistory[k].phaseOneRemoved>>
       \o (IF roundHistory[k].phaseTwoRemoved = NONE_REMOVED THEN <<>>
           ELSE <<roundHistory[k].phaseTwoRemoved>>)

\* C30: with L, T >= 1 run() meets no error: until it has returned a step is
\* always possible, a re-vote always has tied actors to vote for and the removal
\* of phase one always has a candidate; every id removed in phase one or phase
\* two belongs to an actor that was active just before and is the only actor
\* whose status the step changes; no id is removed twice in a game.
C30_NoErrorState ==
  /\ [](ValidCounts =>
          /\ ~Returned => ENABLED Next
          /\ (pc = "tieBreak" /\ TieBreakContinues) => tiedActors # {}
          /\ (pc = "tieBreak" /\ ~TieBreakContinues) => RemovalCandidates # {}
          /\ \A i, j \in 1..Len(RemovalsUpTo(Len(roundHistory))) :
               i # j => RemovalsUpTo(Len(roundHistory))[i]
                          # RemovalsUpTo(Len(roundHistory))[j])
  /\ [][ValidCounts =>
          /\ (pc = "tieBreak" /\ pc' = "afterPhaseOne") =>
               (removedId' \in ActiveIds /\ JustRemoved = {removedId'})
          /\ Len(roundHistory') = Len(roundHistory) + 1 =>
               /\ roundHistory'[Len(roundHistory')].phaseOneRemoved \in startActive
               /\ roundHistory'[Len(roundHistory')].phaseTwoRemoved # NONE_REMOVED =>
                    /\ roundHistory'[Len(roundHistory')].phaseTwoRemoved \in ActiveIds
                    /\ JustRemoved = {roundHistory'[Len(roundHistory')].phaseTwoRemoved}
          /\ actors' # actors => Cardinality(JustRemoved) = 1]_vars

\* A returned game of two rounds that removed three different actors.
C30_Witness ==
  /\ ValidCounts /\ Returned /\ Len(roundHistory) = 2
  /\ Len(RemovalsUpTo(2)) = 3

\* C31: a conductVote call (the initial vote or a tie-break re-vote, of either
\* class and either strategy) leaves the roster as it was; a step that changes
\* the roster is the removal of phase one or of phase two, and it changes only
\* statuses.
C31_VotesLeaveRosterAlone ==
  [][/\ votesHeld' > votesHeld => actors' = actors
     /\ actors' # actors =>
          /\ \/ pc = "tieBreak" /\ pc' = "afterPhaseOne"
             \/ /\ pc = "afterPhaseOne"
                /\ Len(roundHistory') = Len(roundHistory) + 1
                /\ roundHistory'[Len(roundHistory')].phaseTwoRemoved # NONE_REMOVED
          /\ \A i \in 1..Len(actors) :
               /\ actors'[i].id = actors[i].id
               /\ actors'[i].type = actors[i].type]_vars

\* A tie-break re-vote has been held and every actor that started the round is
\* still active.
C31_Witness ==
  /\ ValidCounts /\ pc = "tieBreak" /\ votesHeld >= 2
  /\ ActiveIds = startActive /\ Cardinality(startActive) >= 3

\* C32: no step changes a round already in the history; the round a step
\* appends holds as remainingActors the actors active right after it; in every
\* state the remainingActors of round k are the actors of the roster not removed
\* in rounds 1..k, each recorded with status active.
C32_RoundResultImmutable ==
  /\ [][/\ Len(roundHistory') >= Len(roundHistory)
        /\ \A k \in 1..Len(roundHistory) : roundHistory'[k] = roundHistory[k]
        /\ Len(roundHistory') > Len(roundHistory) =>
             /\ Len(roundHistory') = Len(roundHistory) + 1
             /\ roundHistory'[Len(roundHistory')].remainingActors = getActiveActors'
             /\ roundHistory'[Len(roundHistory')].phaseOneVotes = votes
             /\ roundHistory'[Len(roundHistory')].phaseOneRemoved = removedId]_vars
  /\ [](\A k \in 1..Len(roundHistory) :
          /\ IdsOf(roundHistory[k].remainingActors) =
               Ids \ {RemovalsUpTo(k)[j] : j \in 1..Len(RemovalsUpTo(k))}
          /\ \A i \in 1..Len(roundHistory[k].remainingActors) :
               roundHistory[k].remainingActors[i].status = "active")

\* Round 2 has removed an actor that round 1 recorded as remaining.
C32_Witness ==
  /\ Len(roundHistory) = 2
  /\ roundHistory[2].phaseOneRemoved \in IdsOf(roundHistory[1].remainingActors)
  /\ find(roundHistory[2].phaseOneRemoved).status = "removed"

\* The results of data with this rounds value whose outcome is one of O.
ResultsWith(rounds, O) ==
  Cardinality({k \in 1..Len(results) :
                 results[k].rounds = rounds /\ results[k].outcome \in O})

\* C33: the histogram holds one point per rounds value of the data, in
\* ascending order; its loyalistWins counts the results of that rounds value the
\* loyalists won (traitor_removed, all_loyalists), its traitorWins those the
\* traitors won (no_loyalists, all_traitors), and total is their sum.
C33_HistogramCountsWinners ==
  pc = "drawn" =>
    /\ {histData[i].rounds : i \in 1..Len(histData)} =
         {results[k].rounds : k \in 1..Len(results)}
    /\ \A i, j \in 1..Len(histData) : i < j => histData[i].rounds < histData[j].rounds
    /\ \A i \in 1..Len(histData) :
         /\ histData[i].loyalistWins =
              ResultsWith(histData[i].rounds, {"traitor_removed", "all_loyalists"})
         /\ histData[i].traitorWins =
              ResultsWith(histData[i].rounds, {"no_loyalists", "all_traitors"})
         /\ histData[i].total = histData[i].loyalistWins + histData[i].traitorWins

\* C34: with L, T >= 1 nobody abstains: after the initial vote and after every
\* tie-break re-vote the actors that cast a vote are exactly the actors active
\* when the round started and the counts of the tally sum to their number; so
\* do the counts of every recorded phaseOneVotes.
C34_NobodyAbstains ==
  ValidCounts =>
    /\ pc = "tieBreak" =>
         /\ voters = startActive
         /\ startActive = ActiveIds
         /\ SumTally(votes) = Cardinality(startActive)
    /\ pc = "afterPhaseOne" => SumTally(votes) = Cardinality(startActive)
    /\ \A k \in 1..Len(roundHistory) :
         SumTally(roundHistory[k].phaseOneVotes) = Cardinality(ActiveBefore(k))

\* A recorded second round that started with a single loyalist and a single
\* traitor, both of whom voted.
C34_Witness ==
  /\ ValidCounts /\ Len(roundHistory) = 2
  /\ Cardinality(ActiveBefore(2)) = 2
  /\ SumTally(roundHistory[2].phaseOneVotes) = 2
  /\ Cardinality(Loyalists(ActiveBefore(2))) = 1

\* C35: within one phase one the tied set never grows: a re-vote gives votes
\* only to actors tied in the vote before it, so its tied set is a subset of the
\* previous one, hence of the set the initial vote left, whose members hold the
\* maximum of the initial tally; the actor phase one removes is one of them.
C35_TiedSetNeverGrows ==
  /\ [](ValidCounts =>
          /\ InitialVoteHeld =>
               firstMostVoted = {id \in Ids : HoldsMaximum(id, Tally(ballots))}
          /\ pc = "tieBreak" => (mostVoted # {} /\ mostVoted \subseteq firstMostVoted))
  /\ [][ValidCounts =>
          /\ (pc = "tieBreak" /\ votesHeld' = votesHeld + 1) =>
               /\ DOMAIN votes' \subseteq mostVoted
               /\ mostVoted' \subseteq mostVoted
               /\ firstMostVoted' = firstMostVoted
          /\ (pc = "tieBreak" /\ pc' = "afterPhaseOne") =>
               removedId' \in firstMostVoted]_vars

\* After a re-vote a single actor leads, out of the three or more the initial
\* vote had tied.
C35_Witness ==
  /\ ValidCounts /\ pc = "tieBreak" /\ votesHeld >= 2
  /\ Cardinality(mostVoted) = 1 /\ Cardinality(firstMostVoted) >= 3

\* The game of either class ended after phase one of recorded round k: run()
\* took one of its breaks before resolvePhaseTwo.
EndedAfterPhaseOne(k) ==
  IF IsVotingGame THEN OverAfterPhaseOne(k)
  ELSE Loyalists(AfterPhaseOne(k)) = {} \/ Traitors(AfterPhaseOne(k)) = {}

\* Recorded round k is the last round of a game whose loop has ended.
IsFinalRound(k) == k = Len(roundHistory) /\ pc \in {"return", "done"}

\* C36: with L, T >= 1, when run() reaches phase two an active loyalist exists,
\* and the round records the loyalist it removed; phaseTwoRemoved = -1 is
\* recorded only in the final round, and exactly for a round after whose phase
\* one the game ended; every round that is not final removed two different
\* actors.
C36_PhaseTwoRemovesUnlessEnded ==
  ValidCounts =>
    /\ (pc = "afterPhaseOne" /\ ~TraitorJustRemoved /\ ~isGameOver) =>
         ActiveLoyalistIds # {}
    /\ \A k \in 1..Len(roundHistory) :
         /\ roundHistory[k].phaseTwoRemoved = NONE_REMOVED <=> EndedAfterPhaseOne(k)
         /\ roundHistory[k].phaseTwoRemoved = NONE_REMOVED => IsFinalRound(k)
         /\ roundHistory[k].phaseTwoRemoved # NONE_REMOVED =>
              roundHistory[k].phaseTwoRemoved \in Loyalists(AfterPhaseOne(k))
         /\ ~IsFinalRound(k) =>
              /\ roundHistory[k].phaseTwoRemoved # NONE_REMOVED
              /\ roundHistory[k].phaseTwoRemoved # roundHistory[k].phaseOneRemoved
              /\ Cardinality(ActiveBefore(k))
                   - Len(roundHistory[k].remainingActors) = 2

\* A returned game of two rounds: the first removed two actors, the second
\* ended after its phase one.
C36_Witness ==
  /\ ValidCounts /\ Returned /\ Len(roundHistory) = 2
  /\ roundHistory[1].phaseTwoRemoved # NONE_REMOVED
  /\ roundHistory[2].phaseTwoRemoved = NONE_REMOVED

\* C37: with L, T >= 1 a game of either class never starts more than L rounds,
\* so totalRounds <= L, and a game with a single loyalist returns after exactly
\* one round; every round that is not final removed a loyalist in phase two and
\* left a loyalist active.
C37_RoundsAtMostLoyalists ==
  ValidCounts =>
    /\ currentRound <= loyalistCount
    /\ Returned =>
         /\ result.totalRounds >= 1
         /\ result.totalRounds <= loyalistCount
         /\ loyalistCount = 1 => result.totalRounds = 1
    /\ \A k \in 1..Len(roundHistory) :
         ~IsFinalRound(k) =>
           /\ roundHistory[k].phaseTwoRemoved \in Loyalists(Ids)
           /\ Loyalists(IdsOf(roundHistory[k].remainingActors)) # {}

\* A returned game that took as many rounds as it had loyalists, more than one.
C37_Witness ==
  /\ ValidCounts /\ Returned
  /\ loyalistCount = 2 /\ result.totalRounds = 2

\* C38: with L, T >= 1 some actor is active in every state of a game, that is,
\* the loyalists and the traitors are never both eliminated; every recorded
\* round, the final one included, has a remainingActors that is not empty and
\* holds the actors then active.
C38_SomeoneStaysActive ==
  ValidCounts =>
    /\ ActiveIds # {}
    /\ ~(ActiveLoyalistIds = {} /\ ActiveTraitorIds = {})
    /\ \A k \in 1..Len(roundHistory) : Len(roundHistory[k].remainingActors) >= 1
    /\ Returned =>
         /\ Len(roundHistory) >= 1
         /\ IdsOf(roundHistory[Len(roundHistory)].remainingActors) = ActiveIds

\* A returned game that left a single actor active.
C38_Witness ==
  /\ ValidCounts /\ Returned
  /\ Cardinality(ActiveIds) = 1
  /\ Len(roundHistory[Len(roundHistory)].remainingActors) = 1

\* C39: in a VotingGame with endCondition first_traitor_removed at most one
\* traitor is ever removed, so at least T - 1 traitors stay active; once a
\* traitor is removed no further vote is held, and the round that removed it is
\* the final one; every round that is not final removed two different
\* loyalists.
C39_AtMostOneTraitorRemoved ==
  (IsVotingGame /\ endCondition = "first_traitor_removed") =>
    /\ Cardinality(RemovedTraitors) <= 1
    /\ Cardinality(ActiveTraitorIds) >= traitorCount - 1
    /\ RemovedTraitors # {} => pc \in {"afterPhaseOne", "return", "done"}
    /\ \A k \in 1..Len(roundHistory) :
         /\ roundHistory[k].phaseOneRemoved \in Traitors(Ids) => IsFinalRound(k)
         /\ roundHistory[k].phaseTwoRemoved \notin Traitors(Ids)
         /\ ~IsFinalRound(k) =>
              /\ roundHistory[k].phaseOneRemoved \in Loyalists(Ids)
              /\ roundHistory[k].phaseTwoRemoved \in Loyalists(Ids)
              /\ roundHistory[k].phaseOneRemoved # roundHistory[k].phaseTwoRemoved

\* A returned first_traitor_removed game whose first round removed two
\* loyalists and whose second round removed the traitor.
C39_Witness ==
  /\ IsVotingGame /\ endCondition = "first_traitor_removed" /\ Returned
  /\ Len(roundHistory) = 2
  /\ roundHistory[2].phaseOneRemoved \in RemovedTraitors

\* Every actor active in this phase one was tied in its initial vote.
AllTiedAtFirst == pc = "tieBreak" /\ firstMostVoted = startActive

\* C40: in a tie-break re-vote of an InfluenceVotingGame every tied actor votes
\* for itself (it reads 0 for itself, below every assigned score) and the
\* re-vote has a single possible tally, in which every tied actor holds a vote.
\* When the initial vote tied all active actors, every re-vote gives each of them
\* one vote and leaves the same tie, the loop runs its 10 re-votes, and the
\* removal can then take any of the active actors.
C40_InfluenceSelfVotes ==
  /\ [](IsInfluenceGame =>
          /\ \A a, b \in Ids : a # b => getInfluence(a, b) > getInfluence(a, a)
          /\ (pc = "tieBreak" /\ TieBreakContinues) =>
               /\ \A t \in tiedActors : VoterChoices(t, TRUE, tiedActors) = {t}
               /\ Cardinality(Revotes(tiedActors)) = 1
          /\ AllTiedAtFirst =>
               /\ mostVoted = ActiveIds
               /\ votes = [t \in ActiveIds |-> 1]
               /\ tieBreakAttempts < MAX_TIE_BREAKS => TieBreakContinues
               /\ tieBreakAttempts = MAX_TIE_BREAKS =>
                    \A t \in ActiveIds : ENABLED (PhaseOneRemove /\ removedId' = t))
  /\ [][IsInfluenceGame =>
          /\ (pc = "tieBreak" /\ votesHeld' = votesHeld + 1) =>
               /\ DOMAIN votes' = tiedActors
               /\ tiedActors = ActiveIds =>
                    (votes' = [t \in ActiveIds |-> 1] /\ mostVoted' = mostVoted)
          /\ (AllTiedAtFirst /\ pc' = "afterPhaseOne") =>
               (tieBreakAttempts = MAX_TIE_BREAKS /\ votesHeld = MAX_TIE_BREAKS + 1)]_vars

\* The tenth re-vote of an influence game has left three or more actors, all
\* the active ones, tied as the initial vote had.
C40_Witness ==
  /\ IsInfluenceGame /\ AllTiedAtFirst
  /\ tieBreakAttempts = MAX_TIE_BREAKS
  /\ mostVoted = ActiveIds /\ Cardinality(ActiveIds) >= 3


====
